---- MODULE Spec2Model ----
(***************************************************************************)
(* A model of odin's decorator layer (odin/decorators.py: cache and        *)
(* typecheck) and of the graph composition logic of OdinFunction           *)
(* (odin/base.py, odin/funcs/merge.py) over the TensorFlow backend         *)
(* (odin/tensor/tf_backend.py).                                            *)
(*                                                                         *)
(* Five specifications share the module: CacheSpec (a call_memory          *)
(* decorator and the instances it is called on), TypecheckSpec (a          *)
(* _typecheck decorator and one call through it), Spec (a graph of         *)
(* Summation functions), ParamSpec (the parameters of such a graph) and    *)
(* FunctionSpec (the backend's Function objects and its registry of global *)
(* updates).  Each leaves the other parts' variables idle.                 *)
(***************************************************************************)
EXTENDS Integers, Sequences, FiniteSets, TLC

VARIABLES
    \* ---- call_memory (decorators.py) ----
    tracking_vars,   \* call_memory._tracking_vars
    is_method,       \* func_decorator._is_method of the call_memory object
    use_method,      \* whether the decorated callable is a method of a class
    cache_key,       \* call_memory.cache_key
    cache_value,     \* call_memory.cache_value
    attrs,           \* the tracked attribute of every instance ("absent": no such attribute)
    evals,           \* how many times the wrapped function has been evaluated
    ncalls,          \* how many calls went through the decorator
    last_call,       \* the last call: its inputs and what it returned
    \* ---- _typecheck (decorators.py) ----
    tc,              \* the _typecheck object: inputs, outputs, debug, _is_method, func
    tc_last,         \* the last call through it
    \* ---- OdinFunction graph (base.py, funcs/merge.py, tensor/tf_backend.py) ----
    funcs,           \* the OdinFunction objects constructed so far, by id (1, 2, ...)
    placeholder_shape, \* tf_backend._PLACEHOLDER_SHAPE, in creation order: its length
                     \* is _PLACEHOLDER_ID
    last_op,         \* the last operation of the program on the graph and its result
    \* ---- Function and the global updates (tensor/tf_backend.py) ----
    globals_updates, \* _GLOBALS_UPDATES, an OrderedDict kept as a sequence of items
    functions,       \* the Function objects constructed so far
    registered,      \* history: the calls of add_global_updates and
                     \* reset_global_updates since a Function was last constructed
    session,         \* the value each backend variable holds in the session
    fn_last          \* the last operation on Functions and its result

cacheVars == <<tracking_vars, is_method, use_method, cache_key, cache_value,
               attrs, evals, ncalls, last_call>>
tcVars == <<tc, tc_last>>
graphVars == <<funcs, placeholder_shape, last_op>>
fnVars == <<globals_updates, functions, registered, session, fn_last>>
vars == <<cacheVars, tcVars, graphVars, fnVars>>

Range(s) == {s[i] : i \in 1..Len(s)}

(***************************************************************************)
(* Bounds                                                                  *)
(***************************************************************************)
MaxCalls == 3

(***************************************************************************)
(* call_memory: the cache decorator                                        *)
(***************************************************************************)
Instances == {"o1", "o2"}
AttrVals == {"absent", "p", "q"}
\* the (argument, keyword arguments) pairs a call is made with; kwargs as a set of items
CallInputs == {<<"x", {}>>, <<"y", {}>>, <<"x", {<<"k", "x">>}>>}
NoCall == [args |-> <<>>, kwargs |-> {}, attr |-> "absent", evaluated |-> FALSE,
           ret |-> 0]

\* cache(*args): a bare @cache tracks nothing, @cache('arg') tracks 'arg'
cache == {<<>>, <<"arg">>}

\* call_memory.set_tracking_vars
set_tracking_vars(tv, key) == IF key \in Range(tv) THEN tv ELSE Append(tv, key)

\* hasattr(args[0], k)
hasattr(at, inst, k) == inst \in DOMAIN at /\ k = "arg" /\ at[inst] # "absent"

\* a decorator that never reads the tracked attributes of the instance
ObjectVars_Untracked(ismeth, tv, args, at) == {}

\* the object_vars dictionary built by call_memory.__call__, as a set of items
ObjectVars(ismeth, tv, args, at) ==
    IF ismeth
    THEN {<<k, at[args[1]]>> : k \in {j \in Range(tv) : hasattr(at, args[1], j)}}
    ELSE {}

\* cache_key = (args, kwargs, object_vars)
MakeKey(ismeth, tv, args, kwargs, at) ==
    <<args, kwargs, ObjectVars(ismeth, tv, args, at)>>

\* cache_key in self.cache_key
KeyStored(keys, key) == \E i \in 1..Len(keys) : keys[i] = key

\* a lookup that returns the value stored last
KeyIndex_Last(keys, key) == Len(keys)

\* self.cache_key.index(cache_key): the first position holding an equal key
KeyIndex(keys, key) ==
    CHOOSE i \in 1..Len(keys) :
        keys[i] = key /\ \A j \in 1..(i - 1) : keys[j] # key

CacheInit ==
    /\ tracking_vars \in cache
    /\ use_method \in BOOLEAN
    /\ is_method = FALSE
    /\ cache_key = <<>>
    /\ cache_value = <<>>
    /\ attrs = [i \in Instances |-> "p"]
    /\ evals = 0
    /\ ncalls = 0
    /\ last_call = NoCall

\* a call c.f(a, **kwargs) of a decorated method (func_decorator.__get__, then
\* call_memory.__call__ with the instance as args[0]), or f(a, **kwargs) of a
\* decorated function (call_memory.__call__ alone)
CacheCall(inst, a, kwargs) ==
    /\ ncalls < MaxCalls
    /\ use_method \/ inst = "o1"
    /\ LET ismeth == is_method \/ use_method
           args == IF use_method THEN <<inst, a>> ELSE <<a>>
           key == MakeKey(ismeth, tracking_vars, args, kwargs, attrs)
           seen == IF use_method THEN attrs[inst] ELSE "absent"
       IN /\ is_method' = ismeth
          /\ IF KeyStored(cache_key, key)
             THEN /\ last_call' = [args |-> args, kwargs |-> kwargs, attr |-> seen,
                                   evaluated |-> FALSE,
                                   ret |-> cache_value[KeyIndex(cache_key, key)]]
                  /\ UNCHANGED <<cache_key, cache_value, evals>>
             ELSE /\ evals' = evals + 1
                  /\ cache_key' = Append(cache_key, key)
                  /\ cache_value' = Append(cache_value, evals + 1)
                  /\ last_call' = [args |-> args, kwargs |-> kwargs, attr |-> seen,
                                   evaluated |-> TRUE, ret |-> evals + 1]
    /\ ncalls' = ncalls + 1
    /\ UNCHANGED <<tracking_vars, use_method, attrs>>

\* c.arg = v, or del c.arg: the program changes the tracked attribute
SetAttr(inst, v) ==
    /\ use_method
    /\ attrs[inst] # v
    /\ attrs' = [attrs EXCEPT ![inst] = v]
    /\ UNCHANGED <<tracking_vars, is_method, use_method, cache_key, cache_value,
                   evals, ncalls, last_call>>

\* call_memory.__delete__: both lists are emptied
CacheDelete ==
    /\ use_method
    /\ cache_key # <<>>
    /\ cache_key' = <<>>
    /\ cache_value' = <<>>
    /\ UNCHANGED <<tracking_vars, is_method, use_method, attrs, evals, ncalls,
                   last_call>>

(***************************************************************************)
(* _typecheck: the type enforcement decorator                              *)
(***************************************************************************)
TypeNames == {"int", "str"}
\* the values calls are made with; the default of the second parameter is Default
Vals == {[type |-> t, v |-> 1] : t \in TypeNames}
Default == [type |-> "int", v |-> 0]
TypeSeqs == {<<a>> : a \in TypeNames} \cup {<<a, b>> : a, b \in TypeNames}

\* what typecheck() may be given as inputs= or outputs=: None, one bare type,
\* a tuple of types or a list of types
TypeDecls ==
    {[kind |-> "None", types |-> <<>>]}
    \cup {[kind |-> "type", types |-> <<t>>] : t \in TypeNames}
    \cup {[kind |-> k, types |-> ts] : k \in {"tuple", "list"}, ts \in TypeSeqs}

\* what typecheck() may be given as debug=: an int or a string
DebugArgs ==
    {[isstr |-> FALSE, n |-> n, s |-> ""] : n \in {0, 1, 2, 3}}
    \cup {[isstr |-> TRUE, n |-> 0, s |-> w] : w \in {"raise", "Warn", "ignore"}}

\* word in debug.lower()
InLower(word, s) ==
    \/ word = "raise" /\ s = "raise"
    \/ word = "warn" /\ s = "Warn"

\* _typecheck.set_types: the debug level
ParseDebug(d) ==
    IF d.isstr
    THEN IF InLower("raise", d.s) THEN 2 ELSE IF InLower("warn", d.s) THEN 1 ELSE 0
    ELSE IF d.n \in {0, 1, 2} THEN d.n ELSE 2

\* _typecheck.set_types: a declaration that is neither tuple nor list becomes a 1-tuple
ParseTypes(decl) ==
    IF decl.kind = "type" THEN [kind |-> "tuple", types |-> decl.types] ELSE decl

\* the bodies of the decorated function f(a, b=Default) (for a method f(self, a, b=Default))
Bodies == {"b", "ab", "listb"}
NoResult == [container |-> "none", vals |-> <<>>]

\* the instance a decorated method is called on
Self == [type |-> "ClassName", v |-> 0]

\* the decorated function itself, called with positional arguments args (for a
\* method args[1] is self) and keyword arguments kwargs (a set of <<name, value>> items)
Func(body, meth, args, kwargs) ==
    LET pos == IF meth THEN Tail(args) ELSE args
        a == pos[1]
        b == IF Len(pos) >= 2 THEN pos[2]
             ELSE IF kwargs # {} THEN (CHOOSE item \in kwargs : item[1] = "b")[2]
             ELSE Default
    IN CASE body = "b" -> [container |-> "single", vals |-> <<b>>]
         [] body = "ab" -> [container |-> "tuple", vals |-> <<a, b>>]
         [] body = "listb" -> [container |-> "list", vals |-> <<b>>]

\* tuple(map(type, xs))
TypesOf(xs) == [i \in 1..Len(xs) |-> xs[i].type]

\* kwargs.values()
KwValues(kwargs) == IF kwargs = {} THEN <<>> ELSE <<(CHOOSE item \in kwargs : TRUE)[2]>>

Prefix(xs, n) == SubSeq(xs, 1, n)
Min(a, b) == IF a < b THEN a ELSE b

\* ts[:length] != decl[:length], ts a tuple: a tuple never equals a list
PyTupleNe(ts, decl, length) ==
    decl.kind # "tuple" \/ Prefix(ts, length) # Prefix(decl.types, length)

\* res_types: the type of a single result, the types of the items of a tuple or list
ResTypes(res) == TypesOf(res.vals)

\* _typecheck.__call__ at debug level 0: return self.func(*args)
IgnoreCall(body, meth, args, kwargs) == Func(body, meth, args, {})

\* _typecheck.__call__: the whole call, as the record kept of it
TypecheckCall(t, args, kwargs) ==
    LET base == [called |-> TRUE, args |-> args, kwargs |-> kwargs, checked |-> FALSE,
                 executed |-> FALSE, raised |-> "none", warned |-> {},
                 ret |-> NoResult]
        input_args == (IF t.is_method THEN Tail(args) ELSE args) \o KwValues(kwargs)
        argtypes == TypesOf(input_args)
        in_len == Min(Len(input_args), Len(t.inputs.types))
        in_bad == t.inputs.kind # "None" /\ PyTupleNe(argtypes, t.inputs, in_len)
        results == Func(t.body, t.use_method, args, kwargs)
        res_types == ResTypes(results)
        out_len == Min(Len(res_types), Len(t.outputs.types))
        out_bad == /\ t.outputs.kind # "None"
                   /\ \/ Len(t.outputs.types) > Len(res_types)
                      \/ PyTupleNe(res_types, t.outputs, out_len)
        warned == (IF in_bad THEN {"input"} ELSE {}) \cup (IF out_bad THEN {"output"} ELSE {})
    IN IF t.debug = 0
       THEN [base EXCEPT !.executed = TRUE, !.ret = IgnoreCall(t.body, t.use_method, args, kwargs)]
       ELSE IF in_bad /\ t.debug = 2
       THEN [base EXCEPT !.checked = TRUE, !.raised = "input"]
       ELSE IF out_bad /\ t.debug = 2
       THEN [base EXCEPT !.checked = TRUE, !.executed = TRUE, !.raised = "output"]
       ELSE [base EXCEPT !.checked = TRUE, !.executed = TRUE, !.ret = results,
                         !.warned = IF t.debug = 1 THEN warned ELSE {}]

\* the calls made: f(a), f(a, b) or f(a, b=v)
TcCalls ==
    {<<<<a>>, {}>> : a \in Vals}
    \cup {<<<<a, b>>, {}>> : a, b \in Vals}
    \cup {<<<<a>>, {<<"b", b>>}>> : a, b \in Vals}

NotCalled == [called |-> FALSE, args |-> <<>>, kwargs |-> {}, checked |-> FALSE,
              executed |-> FALSE, raised |-> "none", warned |-> {}, ret |-> NoResult]

\* typecheck(inputs, outputs, debug) applied to a function or method:
\* _typecheck.__init__, then set_types
typecheck(inputs, outputs, debug, body, meth) ==
    [inputs |-> ParseTypes(inputs), outputs |-> ParseTypes(outputs),
     debug |-> ParseDebug(debug), debug_arg |-> debug, body |-> body,
     use_method |-> meth, is_method |-> FALSE]

TcInit ==
    /\ \E i \in TypeDecls, o \in TypeDecls, d \in DebugArgs, b \in Bodies, m \in BOOLEAN :
           tc = typecheck(i, o, d, b, m)
    /\ tc_last = NotCalled

\* a call through the decorator; a method call goes through func_decorator.__get__
\* first, and its args[0] is the instance
TcCall(pos, kwargs) ==
    /\ tc' = [tc EXCEPT !.is_method = tc.is_method \/ tc.use_method]
    /\ tc_last' = TypecheckCall(tc', IF tc.use_method THEN <<Self>> \o pos ELSE pos, kwargs)

TcIdle ==
    /\ tc = typecheck([kind |-> "None", types |-> <<>>], [kind |-> "None", types |-> <<>>],
                      [isstr |-> FALSE, n |-> 2, s |-> ""], "b", FALSE)
    /\ tc_last = NotCalled

CacheIdle ==
    /\ tracking_vars = <<>>
    /\ use_method = FALSE
    /\ is_method = FALSE
    /\ cache_key = <<>>
    /\ cache_value = <<>>
    /\ attrs = [i \in Instances |-> "absent"]
    /\ evals = 0
    /\ ncalls = 0
    /\ last_call = NoCall

GraphIdle == funcs = <<>> /\ placeholder_shape = <<>> /\ last_op = [op |-> "none"]

FnIdle ==
    /\ globals_updates = <<>>
    /\ functions = <<>>
    /\ registered = <<>>
    /\ session = <<>>
    /\ fn_last = [op |-> "none"]

TcNext == \E c \in TcCalls : TcCall(c[1], c[2]) /\ UNCHANGED <<cacheVars, graphVars, fnVars>>

TypecheckInit == TcInit /\ CacheIdle /\ GraphIdle /\ FnIdle

TypecheckSpec == TypecheckInit /\ [][TcNext]_vars

(***************************************************************************)
(* Properties of the typecheck decorator                                   *)
(***************************************************************************)
\* the arguments of the last call whose types are declared: the positional arguments
\* (for a method, those after self), then the keyword arguments
GivenTypes ==
    TypesOf((IF tc.use_method THEN Tail(tc_last.args) ELSE tc_last.args)
            \o KwValues(tc_last.kwargs))

\* what the wrapped function returns for the arguments of the last call
Returned == Func(tc.body, tc.use_method, tc_last.args, tc_last.kwargs)

\* two type sequences differ at a position both have
DifferAt(ts, decl) == \E i \in 1..Min(Len(ts), Len(decl)) : ts[i] # decl[i]

\* C3: at debug level 2, a call whose argument types (after self) differ from the
\* declared input types raises TypeError before the wrapped function runs, and a
\* call whose argument types equal the declared input types raises no TypeError
\* from the input check.
C3_InputCheckRaises ==
    (tc_last.called /\ tc.debug = 2 /\ tc.inputs.kind # "None") =>
        /\ DifferAt(GivenTypes, tc.inputs.types) =>
               (tc_last.raised = "input" /\ ~tc_last.executed)
        /\ GivenTypes = tc.inputs.types => tc_last.raised # "input"

\* C4: at debug level 0, a call performs no type check and returns exactly what
\* the wrapped function returns for the same positional and keyword arguments.
C4_IgnoreReturnsFuncResult ==
    (tc_last.called /\ tc.debug = 0) =>
        /\ ~tc_last.checked
        /\ tc_last.raised = "none"
        /\ tc_last.ret = Returned

\* C5: at debug level 2, a call whose result types do not match the declared
\* output types (fewer results than declared types included) raises TypeError after
\* the wrapped function has run, and a result whose types match is returned unchanged.
C5_OutputCheckRaises ==
    (tc_last.called /\ tc.debug = 2 /\ tc.outputs.kind # "None"
         /\ tc_last.raised # "input") =>
        LET rt == TypesOf(Returned.vals)
        IN /\ (Len(tc.outputs.types) > Len(rt) \/ DifferAt(rt, tc.outputs.types)) =>
                  (tc_last.raised = "output" /\ tc_last.executed)
           /\ rt = tc.outputs.types =>
                  (tc_last.raised = "none" /\ tc_last.ret = Returned)

CacheNext ==
    \/ \E inst \in Instances, c \in CallInputs :
           CacheCall(inst, c[1], c[2]) /\ UNCHANGED <<tcVars, graphVars, fnVars>>
    \/ \E inst \in Instances, v \in AttrVals : SetAttr(inst, v) /\ UNCHANGED <<tcVars, graphVars, fnVars>>
    \/ CacheDelete /\ UNCHANGED <<tcVars, graphVars, fnVars>>

CacheSpecInit == CacheInit /\ TcIdle /\ GraphIdle /\ FnIdle

CacheSpec == CacheSpecInit /\ [][CacheNext]_vars

(***************************************************************************)
(* Properties of the cache decorator                                       *)
(***************************************************************************)
\* the key of a call as the documentation describes it: the positional arguments,
\* the keyword arguments and the values of the tracked attributes of the instance
DocKey(c) ==
    <<c.args, c.kwargs,
      IF use_method /\ c.attr # "absent"
      THEN {<<k, c.attr>> : k \in Range(tracking_vars)}
      ELSE {}>>

\* the value of the tracked attribute a stored key was made under
StoredAttr(key) ==
    IF key[3] = {} THEN "absent" ELSE (CHOOSE item \in key[3] : TRUE)[2]

\* C1: over any sequence of calls, the wrapped function is evaluated exactly on
\* the calls whose key (positional arguments, keyword arguments, tracked attribute
\* values) equals no stored key; a call whose key is stored returns the value
\* stored for that key and evaluates nothing.
C1_EvaluatedOnlyOnNewKey ==
    [][ncalls' = ncalls + 1 =>
         LET k == DocKey(last_call')
             stored == \E i \in 1..Len(cache_key) : cache_key[i] = k
         IN /\ ~stored => /\ evals' = evals + 1
                          /\ last_call'.evaluated
                          /\ last_call'.ret = evals + 1
            /\ stored => /\ evals' = evals
                         /\ ~last_call'.evaluated
                         /\ \E i \in 1..Len(cache_key) :
                                cache_key[i] = k /\ cache_value[i] = last_call'.ret]_vars

\* C1 witness: a call found its key stored and returned the stored value while
\* another key is stored beside it
C1_Witness ==
    /\ ncalls >= 2
    /\ ~last_call.evaluated
    /\ Len(cache_key) >= 2
    /\ \E i \in 1..Len(cache_key) :
           cache_key[i] = DocKey(last_call) /\ cache_value[i] = last_call.ret

\* C2 as stated: on a method wrapped by @cache('arg'), a call made after the tracked
\* attribute changed value since the previous call (same instance, same arguments)
\* re-evaluates the method and returns the new value.
C2_ReevaluatedAfterAnyChange ==
    [][(/\ ncalls' = ncalls + 1
        /\ use_method
        /\ tracking_vars # <<>>
        /\ ncalls > 0
        /\ last_call'.args = last_call.args
        /\ last_call'.kwargs = last_call.kwargs
        /\ last_call.attr # "absent"
        /\ last_call'.attr # "absent"
        /\ last_call'.attr # last_call.attr)
       => (last_call'.evaluated /\ last_call'.ret = evals + 1)]_vars

\* C2 amended: on a method wrapped by @cache('arg'), a call made while no stored key
\* with equal arguments was made under the attribute's current value re-evaluates the
\* method and returns the new value.
C2_ReevaluatedOnUnseenValue ==
    [][(/\ ncalls' = ncalls + 1
        /\ use_method
        /\ tracking_vars # <<>>
        /\ \A i \in 1..Len(cache_key) :
               ~(/\ cache_key[i][1] = last_call'.args
                 /\ cache_key[i][2] = last_call'.kwargs
                 /\ StoredAttr(cache_key[i]) = last_call'.attr))
       => (/\ last_call'.evaluated
           /\ evals' = evals + 1
           /\ last_call'.ret = evals + 1)]_vars

\* C2 witness: the last call was re-evaluated although a key with the same arguments,
\* made under another value of the attribute, is stored
C2_Witness ==
    /\ use_method
    /\ tracking_vars # <<>>
    /\ last_call.evaluated
    /\ last_call.ret = evals
    /\ \E i \in 1..Len(cache_key) :
           /\ cache_key[i][1] = last_call.args
           /\ cache_key[i][2] = last_call.kwargs
           /\ StoredAttr(cache_key[i]) # last_call.attr

(***************************************************************************)
(* OdinFunction: the graph of functions                                    *)
(***************************************************************************)
\* Python values an `incoming` argument is made of.  A dimension is None, an int
\* or a float (v + 0.5); a sequence is a tuple or list of values; a function is an
\* OdinFunction constructed earlier; an object is anything without output_shape.
PyNone == [t |-> "NoneType", v |-> 0, items |-> <<>>]
PyInt(n) == [t |-> "int", v |-> n, items |-> <<>>]
PyFloat(n) == [t |-> "float", v |-> n, items |-> <<>>]
PySeq(xs) == [t |-> "seq", v |-> 0, items |-> xs]
PyFunc(id) == [t |-> "func", v |-> id, items |-> <<>>]
PyObj == [t |-> "object", v |-> 0, items |-> <<>>]

\* isinstance(x, (tuple, list))
IsSeq(x) == x.t = "seq"
\* isinstance(x, (int, long, float))
IsNumber(x) == x.t \in {"int", "float"}
\* hasattr(x, 'output_shape')
HasOutputShape(x) == x.t = "func"
\* j if j is None else int(j); int() of a sequence or an object raises TypeError
IsDim(x) == x.t \in {"NoneType", "int", "float"}
IntOrNone(j) == IF j.t = "NoneType" THEN PyNone ELSE PyInt(j.v)
Last(xs) == xs[Len(xs)]

\* Summation.output_shape: self.input_shape[0]
output_shape(fn) == fn.input_shape[1]

\* OdinFunction.__init__, the parsing of incoming: [incoming] when it is no sequence
\* or a sequence ending in a number
ParseIncoming(incoming) ==
    IF ~IsSeq(incoming) \/ IsNumber(Last(incoming.items))
    THEN <<incoming>>
    ELSE incoming.items

\* what the loop over incoming raises at entry i, "none" when it accepts it
EntryError(i) ==
    IF IsSeq(i)
    THEN IF \A k \in 1..Len(i.items) : IsDim(i.items[k]) THEN "none" ELSE "TypeError"
    ELSE IF HasOutputShape(i) THEN "none" ELSE "ValueError"

\* a loop that keeps the dimensions as given
ShapeOf_Unconverted(i) == i.items

\* tuple([j if j is None else int(j) for j in i])
ShapeOf(i) == [k \in 1..Len(i.items) |-> IntOrNone(i.items[k])]

\* the entry of _incoming for input i: None (0) for a shape, the function otherwise
IncomingEntry(i) == IF IsSeq(i) THEN 0 ELSE i.v

\* the entry of _input_shape for input i
InputShapeEntry(fs, i) == IF IsSeq(i) THEN ShapeOf(i) ELSE output_shape(fs[i.v])

\* OdinFunction.__init__ (through Summation.__init__): the new object, or the error
\* raised ("IndexError" for incoming[-1] of an empty sequence)
NewFunction(fs, incoming, unsupervised) ==
    IF IsSeq(incoming) /\ incoming.items = <<>>
    THEN [raised |-> "IndexError"]
    ELSE LET ins == ParseIncoming(incoming)
             bad == {k \in 1..Len(ins) : EntryError(ins[k]) # "none"}
         IN IF bad # {}
            THEN [raised |-> EntryError(ins[CHOOSE k \in bad : \A j \in bad : k <= j])]
            ELSE [raised |-> "none",
                  unsupervised |-> unsupervised,
                  incoming |-> [k \in 1..Len(ins) |-> IncomingEntry(ins[k])],
                  input_shape |-> [k \in 1..Len(ins) |-> InputShapeEntry(fs, ins[k])],
                  params |-> <<>>,
                  params_tags |-> <<>>,
                  created |-> <<>>,
                  input_var |-> <<>>, has_input_var |-> FALSE,
                  local_input_var |-> {},
                  output_var |-> <<>>, has_output_var |-> FALSE,
                  last_inputs |-> <<>>, has_last_inputs |-> FALSE]

\* a placeholder that ignores ndim
placeholder_NoNdim(phs, shape, ndim, name) ==
    Append(phs, [shape |-> shape, name |-> name])

\* tf_backend.placeholder(shape, ndim, name): the registry _PLACEHOLDER_SHAPE with the
\* new placeholder added; its id is its position.  A missing or empty shape (<<>>) is
\* replaced by ndim times None when ndim is given and not 0.
placeholder(phs, shape, ndim, name) ==
    Append(phs, [shape |-> IF shape = <<>> /\ ndim # 0
                           THEN [k \in 1..ndim |-> PyNone]
                           ELSE shape,
                 name |-> name])

\* tf_backend.ndim of a placeholder
ndim(phs, x) == Len(phs[x].shape)

\* a placeholder created for every input, upstream functions included
IsOwnInput_Always(i) == TRUE

\* `i is None` in the loop of input_var: the input is a shape, the function makes
\* its own placeholder for it
IsOwnInput(i) == i = 0

\* OdinFunction.input_var: the program state st = [funcs, ph] after the property of
\* function f was read; the value read is st.funcs[f].input_var.  InputVarLoop is
\* the loop over (incoming, input_shape) from position idx on.
RECURSIVE InputVar(_, _), InputVarLoop(_, _, _)
\* an input_var that builds its list at every access
InputVar_Uncached(st, f) ==
    InputVarLoop([st EXCEPT !.funcs[f].has_input_var = TRUE,
                            !.funcs[f].input_var = <<>>], f, 1)

InputVar(st, f) ==
    IF st.funcs[f].has_input_var
    THEN st
    ELSE InputVarLoop([st EXCEPT !.funcs[f].has_input_var = TRUE,
                                 !.funcs[f].input_var = <<>>], f, 1)

InputVarLoop(st, f, idx) ==
    IF idx > Len(st.funcs[f].incoming)
    THEN st
    ELSE LET i == st.funcs[f].incoming[idx]
             j == st.funcs[f].input_shape[idx]
         IN IF IsOwnInput(i)
            THEN LET x == Len(st.ph) + 1
                     st1 == [st EXCEPT
                                !.ph = placeholder(st.ph, j, 0, <<"in", idx, "Summation">>),
                                !.funcs[f].input_var = Append(@, x),
                                !.funcs[f].local_input_var = @ \cup {<<idx, x>>}]
                 IN InputVarLoop(st1, f, idx + 1)
            ELSE LET up == InputVar(st, i)
                     st1 == [up EXCEPT
                                !.funcs[f].input_var = @ \o up.funcs[i].input_var]
                 IN InputVarLoop(st1, f, idx + 1)

\* a sum that takes its first input alone
SumExpr_FirstOnly(xs) == [op |-> "sum", id |-> 0, args |-> <<xs[1]>>]

\* expressions of the backend graph: a placeholder, or the sum Summation._call
\* builds from its inputs (sum(x for x in inputs))
PlaceholderExpr(x) == [op |-> "placeholder", id |-> x, args |-> <<>>]
SumExpr(xs) == [op |-> "sum", id |-> 0, args |-> xs]
\* a tensor the caller passes as inputs= of __call__
GivenTensor == [op |-> "tensor", id |-> 0, args |-> <<>>]

\* self._local_input_var[idx]
LocalInputVar(fn, idx) == (CHOOSE p \in fn.local_input_var : p[1] = idx)[2]

\* OdinFunction.get_inputs and OdinFunction.__call__ (with Summation._call): the
\* program state after the call and the value returned, [st, ret].  inputs is <<>>
\* for inputs=None, the list of given inputs otherwise.
RECURSIVE get_inputs(_, _, _), GetInputsLoop(_, _, _, _, _), call(_, _, _, _)
get_inputs(st, f, training) ==
    LET r == GetInputsLoop(InputVar(st, f), f, training, 1, <<>>)
    IN [st |-> [r.st EXCEPT !.funcs[f].last_inputs = r.ret,
                            !.funcs[f].has_last_inputs = TRUE],
        ret |-> r.ret]

GetInputsLoop(st, f, training, idx, inputs) ==
    IF idx > Len(st.funcs[f].incoming)
    THEN [st |-> st, ret |-> inputs]
    ELSE LET i == st.funcs[f].incoming[idx]
         IN IF i = 0
            THEN GetInputsLoop(st, f, training, idx + 1,
                     Append(inputs, PlaceholderExpr(LocalInputVar(st.funcs[f], idx))))
            ELSE LET r == call(st, i, training, <<>>)
                 IN GetInputsLoop(r.st, f, training, idx + 1, Append(inputs, r.ret))

call(st, f, training, inputs) ==
    LET r == IF inputs = <<>> THEN get_inputs(st, f, training)
             ELSE [st |-> st, ret |-> inputs]
    IN [st |-> [r.st EXCEPT !.funcs[f].last_inputs = r.ret,
                            !.funcs[f].has_last_inputs = TRUE],
        ret |-> SumExpr(r.ret)]

\* a check that accepts every function
is_support_unsupervised_Always(fn) == TRUE

\* OdinFunction._is_support_unsupervised: output_shape is wrapped into a list when
\* its last entry is no tuple or list (a Summation's output_shape is one shape);
\* np.prod is reached with lists of equal length only
is_support_unsupervised(fn) ==
    LET out == <<output_shape(fn)>>
    IN \/ fn.input_shape = out
       \/ /\ Len(fn.input_shape) = Len(out)
          /\ Tail(fn.input_shape) = Tail(out)

\* OdinFunction.output_var: [st, raised, ret]; ret is <<>> for None
OutputVar(st, f) ==
    LET fn == st.funcs[f]
    IN IF fn.has_output_var
       THEN [st |-> st, raised |-> "none", none |-> FALSE, ret |-> fn.output_var]
       ELSE IF fn.unsupervised
       THEN IF ~is_support_unsupervised(fn)
            THEN [st |-> st, raised |-> "ValueError", none |-> TRUE, ret |-> <<>>]
            ELSE [st |-> st, raised |-> "none", none |-> TRUE, ret |-> <<>>]
       ELSE LET x == Len(st.ph) + 1
                outshape == <<output_shape(fn)>>
                phs == placeholder(st.ph, <<>>, Len(outshape[1]), <<"out", 1, "Summation">>)
            IN [st |-> [st EXCEPT !.ph = phs,
                                  !.funcs[f].output_var = <<x>>,
                                  !.funcs[f].has_output_var = TRUE],
                raised |-> "none", none |-> FALSE, ret |-> <<x>>]

\* the arguments of create_params.  spec is a backend variable of ndim dimensions, a
\* numpy array of some shape, a callable (returning a variable, an array or an
\* expression, of the shape asked for or of another) or something else; shape is
\* None or a tuple of ints.
VariableSpec(n) == [kind |-> "variable", ndim |-> n, shape |-> <<>>, returns |-> "",
                    right_shape |-> TRUE]
ArraySpec(sh) == [kind |-> "ndarray", ndim |-> Len(sh), shape |-> sh, returns |-> "",
                  right_shape |-> TRUE]
CallableSpec(ret, ok) == [kind |-> "callable", ndim |-> 0, shape |-> <<>>,
                          returns |-> ret, right_shape |-> ok]
OtherSpec == [kind |-> "other", ndim |-> 0, shape |-> <<>>, returns |-> "",
              right_shape |-> TRUE]
NoShape == [none |-> TRUE, dims |-> <<>>]
ShapeArg(sh) == [none |-> FALSE, dims |-> sh]

\* what create_params raises for (spec, shape), "none" when it registers the parameter
CreateParamsError(spec, shape) ==
    CASE spec.kind = "variable" ->
             IF ~shape.none /\ spec.ndim # Len(shape.dims) THEN "RuntimeError" ELSE "none"
      [] spec.kind = "ndarray" ->
             IF ~shape.none /\ spec.shape # shape.dims THEN "RuntimeError" ELSE "none"
      [] spec.kind = "callable" ->
             IF shape.none THEN "TypeError"
             ELSE IF \E k \in 1..Len(shape.dims) : shape.dims[k] <= 0 THEN "ValueError"
             ELSE IF spec.returns # "variable" /\ ~spec.right_shape THEN "RuntimeError"
             ELSE "none"
      [] OTHER -> "RuntimeError"

\* the variable create_params registers: the one given (or returned by the callable),
\* or a new one made by T.variable(..., name=name) in function f
ParamVariable(f, spec, name) ==
    IF spec.kind = "variable" \/ (spec.kind = "callable" /\ spec.returns = "variable")
    THEN [origin |-> "given", by |-> 0, name |-> "shared"]
    ELSE [origin |-> "created", by |-> f, name |-> name]

\* d[key] = value of an OrderedDict kept as a sequence of [key, value] items: a key
\* already there keeps its place
DictSet(d, key, value) ==
    IF \E k \in 1..Len(d) : d[k].key = key
    THEN [k \in 1..Len(d) |-> IF d[k].key = key THEN [key |-> key, value |-> value]
                                ELSE d[k]]
    ELSE Append(d, [key |-> key, value |-> value])
DictGet(d, key) == (CHOOSE k \in Range(d) : k.key = key).value

\* a create_params that writes the tags before it validates spec
create_params_TagsFirst(fn, f, spec, shape, name, regularizable, trainable) ==
    [(IF CreateParamsError(spec, shape) # "none"
      THEN fn
      ELSE [fn EXCEPT !.params = DictSet(@, name, ParamVariable(f, spec, name))])
     EXCEPT !.params_tags = DictSet(DictSet(@, <<name, "regularizable">>, regularizable),
                                    <<name, "trainable">>, trainable)]

\* OdinFunction.create_params: the function object afterwards
create_params(fn, f, spec, shape, name, regularizable, trainable) ==
    IF CreateParamsError(spec, shape) # "none"
    THEN fn
    ELSE [fn EXCEPT
             !.params = DictSet(@, name, ParamVariable(f, spec, name)),
             !.params_tags = DictSet(DictSet(@, <<name, "regularizable">>, regularizable),
                                     <<name, "trainable">>, trainable)]

\* cond_trainable / cond_regularizable: the tag values a filter (None, True, False) admits
Cond(filter) == IF filter = "None" THEN {TRUE, FALSE} ELSE {filter = "True"}

\* the local_params of get_params
LocalParams(fn, trainable, regularizable) ==
    SelectSeq([k \in 1..Len(fn.params) |-> fn.params[k]],
              LAMBDA p : /\ DictGet(fn.params_tags, <<p.key, "trainable">>) \in Cond(trainable)
                         /\ DictGet(fn.params_tags, <<p.key, "regularizable">>)
                                \in Cond(regularizable))

ParamValues(items) == [k \in 1..Len(items) |-> items[k].value]

\* a get_params that lists the function's own parameters first
RECURSIVE get_params_LocalFirst(_, _, _, _, _)
get_params_LocalFirst(fs, f, globals, trainable, regularizable) ==
    LET RECURSIVE Up(_)
        Up(idx) ==
            IF idx > Len(fs[f].incoming) THEN <<>>
            ELSE (IF fs[f].incoming[idx] # 0
                  THEN get_params_LocalFirst(fs, fs[f].incoming[idx], globals, trainable,
                                             regularizable)
                  ELSE <<>>) \o Up(idx + 1)
    IN ParamValues(LocalParams(fs[f], trainable, regularizable))
       \o (IF globals THEN Up(1) ELSE <<>>)

\* OdinFunction.get_params
RECURSIVE get_params(_, _, _, _, _)
get_params(fs, f, globals, trainable, regularizable) ==
    LET RECURSIVE Up(_)
        Up(idx) ==
            IF idx > Len(fs[f].incoming) THEN <<>>
            ELSE (IF fs[f].incoming[idx] # 0
                  THEN get_params(fs, fs[f].incoming[idx], globals, trainable,
                                  regularizable)
                  ELSE <<>>) \o Up(idx + 1)
    IN (IF globals THEN Up(1) ELSE <<>>)
       \o ParamValues(LocalParams(fs[f], trainable, regularizable))

\* tf_backend.gradients(loss, variables, consider_constant): what it raises, and the
\* gradients (one per variable); consider_constant is [none, exprs]
gradients(loss, variables, consider_constant) ==
    IF ~consider_constant.none
    THEN [raised |-> "NotImplementedError", grad |-> <<>>]
    ELSE [raised |-> "none",
          grad |-> [k \in 1..Len(variables) |-> [d |-> loss, wrt |-> variables[k]]]]

\* what objective= and optimizer= may be given
Objectives == {"None", "not_callable", "squared_loss"}
Optimizers == {"None", "not_callable", "sgd"}
IsCallable(x) == x \notin {"None", "not_callable"}

\* OdinFunction._validation_optimization_params
ValidationError(objective, optimizer) ==
    IF objective = "None" \/ ~IsCallable(objective) THEN "ValueError"
    ELSE IF optimizer # "None" /\ ~IsCallable(optimizer) THEN "ValueError"
    ELSE "none"

NoCost == [objective |-> "None", y_pred |-> <<>>, y_true |-> <<>>]
NoOpt == [raised |-> "none", cost |-> NoCost, has_updates |-> FALSE, updates |-> <<>>,
          params |-> <<>>, asked_params |-> FALSE, asked_grads |-> FALSE,
          constants |-> <<>>]

\* Summation.get_optimization, that is
\* OdinFunction._deterministic_optimization_procedure: [st, res]
get_optimization(st, f, objective, optimizer, globals, training) ==
    IF ValidationError(objective, optimizer) # "none"
    THEN [st |-> st, res |-> [NoOpt EXCEPT !.raised = "ValueError"]]
    ELSE
    LET y == call(st, f, training, <<>>)
        ov == OutputVar(y.st, f)
        obj == [objective |-> objective, y_pred |-> <<y.ret>>, y_true |-> ov.ret]
        params == get_params(ov.st.funcs, f, globals, "True", "None")
        g == IF globals
             THEN gradients(obj, params, [none |-> TRUE, exprs |-> <<>>])
             ELSE gradients(obj, params,
                            [none |-> FALSE, exprs |-> ov.st.funcs[f].last_inputs])
    IN IF ov.raised # "none"
       THEN [st |-> ov.st, res |-> [NoOpt EXCEPT !.raised = ov.raised]]
       ELSE IF ov.none
       THEN [st |-> ov.st, res |-> [NoOpt EXCEPT !.raised = "TypeError"]]
       ELSE IF optimizer = "None"
       THEN [st |-> ov.st, res |-> [NoOpt EXCEPT !.cost = obj]]
       ELSE IF g.raised # "none"
       THEN [st |-> ov.st,
             res |-> [NoOpt EXCEPT !.raised = g.raised, !.asked_params = TRUE,
                                   !.asked_grads = TRUE, !.params = params,
                                   !.constants = IF globals THEN <<>>
                                                 ELSE ov.st.funcs[f].last_inputs]]
       ELSE [st |-> ov.st,
             res |-> [NoOpt EXCEPT !.cost = obj, !.has_updates = TRUE,
                                   !.updates = [k \in 1..Len(params) |->
                                                   <<params[k], g.grad[k]>>],
                                   !.params = params, !.asked_params = TRUE,
                                   !.asked_grads = TRUE]]

(***************************************************************************)
(* The operations of a program on the graph                                *)
(***************************************************************************)
\* functions per graph, in Spec and in ParamSpec; parameters per function
MaxFuncs == 2
MaxLayers == 3
MaxParams == 2

Shape1 == PySeq(<<PyNone, PyFloat(2)>>)
Shape3 == PySeq(<<PyInt(3), PyNone>>)

\* the incoming arguments a program constructs the next function with, n functions
\* existing: a shape, a function, lists of shapes and functions
IncomingArgs(n) ==
    {Shape1, PySeq(<<Shape1, Shape3>>)}
    \cup {PyFunc(k) : k \in 1..n}
    \cup {PySeq(<<Shape1, PyFunc(k)>>) : k \in 1..n}
    \cup {PySeq(<<PyFunc(j), PyFunc(k)>>) : j, k \in 1..n}

\* incoming arguments the constructor refuses: a shape ending in None (taken for a
\* list of inputs), an object without output_shape, an empty list, a shape holding
\* an object
BadIncomingArgs == {Shape3, PyObj, PySeq(<<>>), PySeq(<<PySeq(<<PyObj>>)>>)}

\* the constructor calls a program makes: (incoming, unsupervised)
ConstructCalls(n) ==
    {<<a, u>> : a \in IncomingArgs(n), u \in BOOLEAN}
    \cup {<<a, FALSE>> : a \in BadIncomingArgs}

State == [funcs |-> funcs, ph |-> placeholder_shape]

GraphInit ==
    /\ funcs = <<>>
    /\ placeholder_shape = <<>>
    /\ last_op = [op |-> "none"]

\* f = Summation(incoming, unsupervised=...)
Construct(incoming, unsupervised) ==
    /\ LET new == NewFunction(funcs, incoming, unsupervised)
       IN /\ funcs' = IF new.raised = "none" THEN Append(funcs, new) ELSE funcs
          /\ last_op' = [op |-> "Summation", incoming |-> incoming,
                         unsupervised |-> unsupervised, raised |-> new.raised]
    /\ UNCHANGED placeholder_shape

\* f.input_var
ReadInputVar(f) ==
    /\ LET st == InputVar(State, f)
       IN /\ funcs' = st.funcs
          /\ placeholder_shape' = st.ph
          /\ last_op' = [op |-> "input_var", f |-> f, ret |-> st.funcs[f].input_var]

\* f.output_var
ReadOutputVar(f) ==
    /\ LET r == OutputVar(State, f)
       IN /\ funcs' = r.st.funcs
          /\ placeholder_shape' = r.st.ph
          /\ last_op' = [op |-> "output_var", f |-> f, raised |-> r.raised,
                         none |-> r.none, ret |-> r.ret]

\* f.get_inputs(training)
GetInputs(f, training) ==
    /\ LET r == get_inputs(State, f, training)
       IN /\ funcs' = r.st.funcs
          /\ placeholder_shape' = r.st.ph
          /\ last_op' = [op |-> "get_inputs", f |-> f, training |-> training,
                         ret |-> r.ret]

\* f(training), or f(training, inputs=...) with a tensor or a list of one tensor
Call(f, training, inputs) ==
    /\ LET r == call(State, f, training, inputs)
       IN /\ funcs' = r.st.funcs
          /\ placeholder_shape' = r.st.ph
          /\ last_op' = [op |-> "call", f |-> f, training |-> training,
                         inputs |-> inputs, ret |-> r.ret]

\* f.create_params(spec, shape, name, regularizable, trainable).  `created` is a
\* history of the function: the variables registered for it, in the order of their
\* first registration.
CreateParams(f, spec, shape, name, regularizable, trainable) ==
    /\ Len(funcs[f].params) < MaxParams
    /\ funcs' = [funcs EXCEPT ![f] =
                     [create_params(funcs[f], f, spec, shape, name, regularizable,
                                    trainable)
                      EXCEPT !.created =
                          IF CreateParamsError(spec, shape) = "none"
                             /\ ParamVariable(f, spec, name) \notin Range(@)
                          THEN Append(@, ParamVariable(f, spec, name)) ELSE @]]
    /\ last_op' = [op |-> "create_params", f |-> f, name |-> name,
                   regularizable |-> regularizable, trainable |-> trainable,
                   raised |-> CreateParamsError(spec, shape),
                   ret |-> IF CreateParamsError(spec, shape) = "none"
                           THEN <<ParamVariable(f, spec, name)>> ELSE <<>>]
    /\ UNCHANGED placeholder_shape

\* f.get_params(globals, trainable, regularizable)
GetParams(f, globals, trainable, regularizable) ==
    /\ last_op' = [op |-> "get_params", f |-> f, globals |-> globals,
                   trainable |-> trainable, regularizable |-> regularizable,
                   ret |-> get_params(funcs, f, globals, trainable, regularizable)]
    /\ UNCHANGED <<funcs, placeholder_shape>>

\* f.get_optimization(objective, optimizer, globals, training)
GetOptimization(f, objective, optimizer, globals, training) ==
    /\ LET r == get_optimization(State, f, objective, optimizer, globals, training)
       IN /\ funcs' = r.st.funcs
          /\ placeholder_shape' = r.st.ph
          /\ last_op' = [op |-> "get_optimization", f |-> f, objective |-> objective,
                         optimizer |-> optimizer, globals |-> globals,
                         training |-> training, res |-> r.res]

\* the create_params calls a program makes: two that register a parameter, the
\* others raise (dimension count, array shape, non-positive dimension, shape of the
\* callable's value, no shape for a callable, a spec of no known kind)
ParamCalls ==
    {<<ArraySpec(<<2, 3>>), ShapeArg(<<2, 3>>), "W", TRUE, TRUE>>,
     <<VariableSpec(1), ShapeArg(<<3>>), "b", TRUE, FALSE>>,
     <<VariableSpec(2), ShapeArg(<<3>>), "b", TRUE, TRUE>>,
     <<ArraySpec(<<3, 2>>), ShapeArg(<<2, 3>>), "W", TRUE, TRUE>>,
     <<CallableSpec("array", TRUE), ShapeArg(<<0>>), "W", TRUE, TRUE>>,
     <<CallableSpec("expression", FALSE), ShapeArg(<<3>>), "W", TRUE, TRUE>>,
     <<CallableSpec("array", TRUE), NoShape, "W", TRUE, TRUE>>,
     <<OtherSpec, NoShape, "W", TRUE, TRUE>>}

\* the incoming arguments the layers of ParamSpec are constructed with
LayerArgs(n) ==
    {Shape1, PyObj}
    \cup {PySeq(<<Shape3, PyFunc(k)>>) : k \in 1..n}
    \cup {PySeq(<<PyFunc(j), PyFunc(k)>>) : j, k \in 1..n}

\* the get_params calls a program makes: (globals, trainable, regularizable)
ParamQueries ==
    {<<TRUE, "None", "None">>, <<FALSE, "None", "None">>, <<TRUE, "True", "None">>,
     <<TRUE, "None", "False">>, <<FALSE, "False", "True">>}

\* the get_optimization calls a program makes: (objective, optimizer, globals, training)
OptCalls ==
    {<<"None", "sgd", TRUE, TRUE>>, <<"not_callable", "None", TRUE, TRUE>>,
     <<"squared_loss", "not_callable", TRUE, TRUE>>,
     <<"squared_loss", "None", TRUE, FALSE>>}
    \cup {<<"squared_loss", p, g, TRUE>> : p \in {"None", "sgd"}, g \in BOOLEAN}

\* the calls f(training) and f(training, inputs) a program makes
Calls == {<<TRUE, <<>>>>, <<FALSE, <<>>>>, <<FALSE, <<GivenTensor>>>>}

Next ==
    \/ \E c \in ConstructCalls(Len(funcs)) :
           /\ Len(funcs) < MaxFuncs
           /\ Construct(c[1], c[2])
           /\ UNCHANGED <<cacheVars, tcVars, fnVars>>
    \/ \E f \in 1..Len(funcs) : ReadInputVar(f) /\ UNCHANGED <<cacheVars, tcVars, fnVars>>
    \/ \E f \in 1..Len(funcs) : ReadOutputVar(f) /\ UNCHANGED <<cacheVars, tcVars, fnVars>>
    \/ \E f \in 1..Len(funcs), t \in BOOLEAN :
           GetInputs(f, t) /\ UNCHANGED <<cacheVars, tcVars, fnVars>>
    \/ \E f \in 1..Len(funcs), c \in Calls :
           Call(f, c[1], c[2]) /\ UNCHANGED <<cacheVars, tcVars, fnVars>>
    \/ \E f \in 1..Len(funcs), c \in OptCalls :
           GetOptimization(f, c[1], c[2], c[3], c[4]) /\ UNCHANGED <<cacheVars, tcVars, fnVars>>

\* a program that builds a graph, creates the parameters of each function once it is
\* constructed (as the constructor of a layer does), and lists parameters
ParamNext ==
    \/ \E a \in LayerArgs(Len(funcs)) :
           /\ Len(funcs) < MaxLayers
           /\ Construct(a, FALSE)
           /\ UNCHANGED <<cacheVars, tcVars, fnVars>>
    \/ \E c \in ParamCalls :
           /\ funcs # <<>>
           /\ CreateParams(Len(funcs), c[1], c[2], c[3], c[4], c[5])
           /\ UNCHANGED <<cacheVars, tcVars, fnVars>>
    \/ \E f \in 1..Len(funcs), q \in ParamQueries :
           GetParams(f, q[1], q[2], q[3]) /\ UNCHANGED <<cacheVars, tcVars, fnVars>>

Init == GraphInit /\ CacheIdle /\ TcIdle /\ FnIdle

Spec == Init /\ [][Next]_vars

ParamSpec == Init /\ [][ParamNext]_vars

(***************************************************************************)
(* Properties of the graph of functions                                    *)
(***************************************************************************)
\* the inputs an incoming argument stands for: the entries of a list of shapes and
\* functions, or the one shape or function given
GivenInputs(arg) ==
    IF /\ arg.t = "seq"
       /\ arg.items # <<>>
       /\ \A k \in 1..Len(arg.items) : arg.items[k].t \in {"seq", "func"}
    THEN arg.items
    ELSE <<arg>>

\* a shape as input_shape keeps it: None stays None, a number becomes an int
KeptShape(kept, given) ==
    /\ Len(kept) = Len(given.items)
    /\ \A d \in 1..Len(kept) :
           IF given.items[d].t = "NoneType"
           THEN kept[d] = PyNone
           ELSE kept[d].t = "int" /\ kept[d].v = given.items[d].v

RECURSIVE ConcatInputVar(_, _)
ConcatInputVar(f, idx) ==
    IF idx > Len(funcs[f].incoming)
    THEN <<>>
    ELSE (IF funcs[f].incoming[idx] = 0
          THEN <<LocalInputVar(funcs[f], idx)>>
          ELSE funcs[funcs[f].incoming[idx]].input_var)
         \o ConcatInputVar(f, idx + 1)

\* C7: the input_var of a function is the concatenation, in incoming order, of its
\* own placeholder for each shape input and the whole input_var list of each
\* upstream function; each own placeholder is made by this function alone and has
\* the shape of the input it stands for.
C7_InputVarConcatenation ==
    /\ \A f \in 1..Len(funcs) :
           funcs[f].has_input_var =>
               /\ \A idx \in 1..Len(funcs[f].incoming) :
                      IF funcs[f].incoming[idx] = 0
                      THEN /\ \E p \in funcs[f].local_input_var : p[1] = idx
                           /\ placeholder_shape[LocalInputVar(funcs[f], idx)].shape
                                  = funcs[f].input_shape[idx]
                           /\ \A g \in 1..Len(funcs) : \A p \in funcs[g].local_input_var :
                                  p[2] = LocalInputVar(funcs[f], idx)
                                      => (g = f /\ p[1] = idx)
                      ELSE funcs[funcs[f].incoming[idx]].has_input_var
               /\ funcs[f].input_var = ConcatInputVar(f, 1)
    /\ last_op.op = "input_var" =>
           /\ funcs[last_op.f].has_input_var
           /\ last_op.ret = funcs[last_op.f].input_var

\* input_var was read of a function with a shape input and an upstream function
C7_Witness ==
    /\ last_op.op = "input_var"
    /\ funcs[last_op.f].incoming = <<0, 1>>
    /\ Len(last_op.ret) = 2
    /\ last_op.ret[1] # last_op.ret[2]

\* the parameters C8 describes for function f: those of the upstream functions from
\* input idx on, then (AllCreated) the function's own
RECURSIVE UpstreamCreated(_, _), AllCreated(_)
UpstreamCreated(f, idx) ==
    IF idx > Len(funcs[f].incoming)
    THEN <<>>
    ELSE (IF funcs[f].incoming[idx] = 0 THEN <<>>
          ELSE AllCreated(funcs[f].incoming[idx]))
         \o UpstreamCreated(f, idx + 1)

AllCreated(f) == UpstreamCreated(f, 1) \o funcs[f].created

\* C8: get_params(globals=True) returns the parameters of the upstream functions
\* first, in incoming order and recursively, then the function's own in creation
\* order; get_params(globals=False) returns the function's own parameters only.
C8_ParamsUpstreamFirst ==
    (/\ last_op.op = "get_params"
     /\ last_op.trainable = "None"
     /\ last_op.regularizable = "None") =>
        last_op.ret = IF last_op.globals THEN AllCreated(last_op.f)
                      ELSE funcs[last_op.f].created

\* all parameters were listed of a function with two parameters of its own and two
\* different upstream functions, each holding a parameter
C8_Witness ==
    /\ last_op.op = "get_params"
    /\ last_op.globals
    /\ last_op.trainable = "None"
    /\ last_op.regularizable = "None"
    /\ LET fn == funcs[last_op.f]
       IN /\ Len(fn.incoming) = 2
          /\ fn.incoming[1] # 0
          /\ fn.incoming[2] # 0
          /\ fn.incoming[1] # fn.incoming[2]
          /\ funcs[fn.incoming[1]].created # <<>>
          /\ funcs[fn.incoming[2]].created # <<>>
          /\ Len(fn.created) = 2
          /\ Len(last_op.ret) >= 4

\* C9: get_optimization with a callable objective and optimizer=None returns the
\* objective applied to the function's output and its output_var, with None as the
\* updates, and asks for no gradients and no parameters (unless output_var itself
\* refuses the function with ValueError).
C9_NoOptimizerReturnsCost ==
    (/\ last_op.op = "get_optimization"
     /\ IsCallable(last_op.objective)
     /\ last_op.optimizer = "None"
     /\ last_op.res.raised # "ValueError") =>
        /\ last_op.res.raised = "none"
        /\ last_op.res.cost.objective = last_op.objective
        /\ last_op.res.cost.y_pred = <<SumExpr(funcs[last_op.f].last_inputs)>>
        /\ funcs[last_op.f].has_output_var
        /\ last_op.res.cost.y_true = funcs[last_op.f].output_var
        /\ ~last_op.res.has_updates
        /\ ~last_op.res.asked_grads
        /\ ~last_op.res.asked_params

\* C10: get_optimization of a supervised function with a callable objective, an
\* optimizer and globals=False returns the cost and updates of the function's own
\* trainable parameters only, the gradient taken with the function's last inputs as
\* constants.
C10_LocalUpdates ==
    (/\ last_op.op = "get_optimization"
     /\ IsCallable(last_op.objective)
     /\ IsCallable(last_op.optimizer)
     /\ ~last_op.globals
     /\ ~funcs[last_op.f].unsupervised) =>
        /\ last_op.res.raised = "none"
        /\ last_op.res.cost.objective = last_op.objective
        /\ last_op.res.has_updates
        /\ last_op.res.params
               = ParamValues(LocalParams(funcs[last_op.f], "True", "None"))
        /\ [k \in 1..Len(last_op.res.updates) |-> last_op.res.updates[k][1]]
               = last_op.res.params
        /\ last_op.res.constants = funcs[last_op.f].last_inputs

C12_UnsupervisedShapeCheck ==
    (last_op.op = "output_var" /\ funcs[last_op.f].unsupervised) =>
        LET fn == funcs[last_op.f]
        IN IF fn.input_shape = <<fn.input_shape[1]>>
           THEN last_op.raised = "none"
           ELSE last_op.raised = "ValueError"

\* output_var was read of an unsupervised function with two inputs of one shape
C12_Witness ==
    /\ last_op.op = "output_var"
    /\ funcs[last_op.f].unsupervised
    /\ Len(funcs[last_op.f].input_shape) = 2
    /\ funcs[last_op.f].input_shape[1] = funcs[last_op.f].input_shape[2]
    /\ last_op.raised = "ValueError"

\* C13: get_inputs(training=True) returns the intermediate inputs, that is its own
\* placeholder for a shape input and the output of the previous function for a
\* function input; get_inputs(training=False) returns the placeholders that are the
\* inputs of the whole graph (the input_var of the function).
C13_GetInputsByTraining ==
    last_op.op = "get_inputs" =>
        LET fn == funcs[last_op.f]
        IN IF last_op.training
           THEN /\ Len(last_op.ret) = Len(fn.incoming)
                /\ \A k \in 1..Len(fn.incoming) :
                       IF fn.incoming[k] = 0
                       THEN last_op.ret[k] = PlaceholderExpr(LocalInputVar(fn, k))
                       ELSE last_op.ret[k]
                                = [op |-> "sum", id |-> 0,
                                   args |-> funcs[fn.incoming[k]].last_inputs]
           ELSE last_op.ret
                    = [k \in 1..Len(fn.input_var) |-> PlaceholderExpr(fn.input_var[k])]

\* the shape inputs of a function, and the input placeholders of the registry
ShapeInputs(fn) == {k \in 1..Len(fn.incoming) : fn.incoming[k] = 0}
InPlaceholders(phs) == {x \in 1..Len(phs) : phs[x].name[1] = "in"}

\* C14: placeholders are materialized lazily and once.  Constructing a function
\* creates no placeholder; a function whose input_var was never built owns none, one
\* whose input_var was built owns exactly one per shape input, and these are all the
\* input placeholders there are; once built, input_var and the function's own
\* placeholders stay the same objects at every later access to input_var and call
\* of get_inputs or __call__, which return them.
C14_PlaceholdersLazyAndOnce ==
    [][/\ Len(placeholder_shape') >= Len(placeholder_shape)
       /\ \A x \in 1..Len(placeholder_shape) :
              placeholder_shape'[x] = placeholder_shape[x]
       /\ last_op'.op = "Summation" => placeholder_shape' = placeholder_shape
       /\ \A f \in 1..Len(funcs) :
              funcs[f].has_input_var =>
                  /\ funcs'[f].has_input_var
                  /\ funcs'[f].input_var = funcs[f].input_var
                  /\ funcs'[f].local_input_var = funcs[f].local_input_var
       /\ \A f \in 1..Len(funcs') :
              IF funcs'[f].has_input_var
              THEN /\ {p[1] : p \in funcs'[f].local_input_var} = ShapeInputs(funcs'[f])
                   /\ Cardinality(funcs'[f].local_input_var)
                          = Cardinality(ShapeInputs(funcs'[f]))
              ELSE funcs'[f].local_input_var = {} /\ funcs'[f].input_var = <<>>
       /\ Cardinality(InPlaceholders(placeholder_shape'))
              = Cardinality(UNION {{<<f, k>> : k \in ShapeInputs(funcs'[f])} :
                                       f \in {g \in 1..Len(funcs') :
                                                  funcs'[g].has_input_var}})
       /\ InPlaceholders(placeholder_shape')
              = UNION {{p[2] : p \in funcs'[f].local_input_var} : f \in 1..Len(funcs')}
       /\ last_op'.op = "input_var" =>
              last_op'.ret = funcs'[last_op'.f].input_var
       /\ last_op'.op = "get_inputs" =>
              \A k \in ShapeInputs(funcs'[last_op'.f]) :
                  last_op'.ret[k]
                      = PlaceholderExpr(LocalInputVar(funcs'[last_op'.f], k))
       /\ (last_op'.op = "call" /\ last_op'.inputs = <<>>) =>
              \A k \in ShapeInputs(funcs'[last_op'.f]) :
                  last_op'.ret.args[k]
                      = PlaceholderExpr(LocalInputVar(funcs'[last_op'.f], k))]_vars

\* input_var was read of a function that had been called before, with a shape
\* input and an upstream function
C14_Witness ==
    /\ last_op.op = "input_var"
    /\ funcs[last_op.f].has_last_inputs
    /\ funcs[last_op.f].incoming = <<0, 1>>
    /\ Len(last_op.ret) >= 2
    /\ Cardinality(InPlaceholders(placeholder_shape)) = Len(last_op.ret)

\* the output of function f as C15 describes it: the sum of its inputs, an input
\* being the function's placeholder for a shape and the output of the upstream
\* function otherwise
RECURSIVE SumOfInputs(_)
SumOfInputs(f) ==
    [op |-> "sum", id |-> 0,
     args |-> [k \in 1..Len(funcs[f].incoming) |->
                  IF funcs[f].incoming[k] = 0
                  THEN PlaceholderExpr(LocalInputVar(funcs[f], k))
                  ELSE SumOfInputs(funcs[f].incoming[k])]]

OtherItems(d, keys) == {e \in Range(d) : e.key \notin keys}
\* the values an OrderedDict holds under a key
ValuesAt(d, key) == {e.value : e \in {x \in Range(d) : x.key = key}}

\* C17: create_params registers the parameter under its name in params, with both
\* of its tags in params_tags, only when validation succeeds, leaving the other
\* entries as they were; whenever it raises, params and params_tags are unchanged.
C17_CreateParamsAtomic ==
    [][last_op'.op = "create_params" =>
         LET old == funcs[last_op'.f]
             new == funcs'[last_op'.f]
             name == last_op'.name
             tags == {<<name, "regularizable">>, <<name, "trainable">>}
         IN IF last_op'.raised = "none"
            THEN /\ ValuesAt(new.params, name) = {last_op'.ret[1]}
                 /\ ValuesAt(new.params_tags, <<name, "regularizable">>)
                        = {last_op'.regularizable}
                 /\ ValuesAt(new.params_tags, <<name, "trainable">>)
                        = {last_op'.trainable}
                 /\ OtherItems(new.params, {name}) = OtherItems(old.params, {name})
                 /\ OtherItems(new.params_tags, tags) = OtherItems(old.params_tags, tags)
                 /\ Len(new.params_tags) = 2 * Len(new.params)
            ELSE /\ new.params = old.params
                 /\ new.params_tags = old.params_tags]_vars

\* create_params raised for a function that holds a parameter already
C17_Witness ==
    /\ last_op.op = "create_params"
    /\ last_op.raised \in {"RuntimeError", "ValueError"}
    /\ Len(funcs[last_op.f].params) = 1
    /\ Len(funcs[last_op.f].params_tags) = 2

(***************************************************************************)
(* tf_backend: the global updates and Function                             *)
(***************************************************************************)
\* backend variables, the values assigned to them, and the tensors fetched
Variables == {"v1", "v2"}
Values == {"init", "a", "b"}
Tensor(name) == [op |-> "tensor", var |-> name, value |-> ""]
\* tf.assign(p, new_p)
Assign(p, new_p) == [op |-> "assign", var |-> p, value |-> new_p]

\* add_global_updates(variable, value): _GLOBALS_UPDATES[variable] = value
add_global_updates(reg, variable, value) == DictSet(reg, variable, value)

\* reset_global_updates(): a new, empty OrderedDict
reset_global_updates == <<>>

\* a constructor that attaches no global update
GlobalAssigns_None(reg) == <<>>

\* [tf.assign(p, new_p) for (p, new_p) in _GLOBALS_UPDATES.items()]
GlobalAssigns(reg) == [k \in 1..Len(reg) |-> Assign(reg[k].key, reg[k].value)]

\* an argument of Function: its type (list, tuple, OrderedDict, dict, or other for
\* a single object) and what it holds
Arg(type, items) == [type |-> type, items |-> items]

\* Function.__init__(inputs, outputs, updates) with the registry reg: the object, or
\* the AssertionError raised.  `declared` is a history: outputs as it was given.
Function(inputs, outputs, updates, reg) ==
    IF inputs.type \notin {"list", "tuple"}
    THEN [raised |-> "AssertionError"]
    ELSE IF updates.type \notin {"list", "tuple", "OrderedDict"}
    THEN [raised |-> "AssertionError"]
    ELSE [raised |-> "none",
          inputs |-> inputs.items,
          outputs |-> outputs.items,
          return_list |-> outputs.type \in {"list", "tuple"},
          updates |-> [k \in 1..Len(updates.items) |->
                          Assign(updates.items[k][1], updates.items[k][2])],
          global_update |-> GlobalAssigns(reg),
          declared |-> outputs]

\* tf_backend.function
function(inputs, outputs, updates, reg) == Function(inputs, outputs, updates, reg)

\* session.run(fetches): the value fetched for each tensor and each assignment
Run(fetches) ==
    [k \in 1..Len(fetches) |->
        IF fetches[k].op = "assign"
        THEN [result_of |-> "assign", ref |-> fetches[k].var]
        ELSE [result_of |-> "output", ref |-> fetches[k].var]]

\* the values the variables may hold after the session ran the assignments
SessionsAfter(s, assigns) ==
    {t \in [Variables -> Values] :
        \A v \in Variables :
            LET new == {a.value : a \in {x \in Range(assigns) : x.var = v}}
            IN t[v] \in IF new = {} THEN {s[v]} ELSE new}

\* a call that returns all that the session ran
FunctionCall_All(fn) ==
    [list |-> fn.return_list,
     vals |-> Run(fn.outputs \o fn.updates \o fn.global_update)]

\* Function.__call__: what is returned, a list of values or (list = FALSE) the one
\* value vals[1]
FunctionCall(fn) ==
    LET updated == Run(fn.outputs \o fn.updates \o fn.global_update)
    IN IF fn.return_list
       THEN [list |-> TRUE, vals |-> SubSeq(updated, 1, Len(fn.outputs))]
       ELSE [list |-> FALSE, vals |-> <<updated[1]>>]

\* Functions per program, and calls of add_global_updates and reset_global_updates
\* between two constructions
MaxFunctions == 2
MaxEvents == 2

\* the calls a program makes: add_global_updates(variable, value), and
\* function(inputs, outputs, updates)
AddCalls == {<<"v1", "a">>, <<"v1", "b">>, <<"v2", "a">>}
FunctionCalls ==
    {<<Arg(i, <<"x">>), o, u>> :
        i \in {"list", "other"},
        o \in {Arg("other", <<Tensor("y")>>),
               Arg("tuple", <<Tensor("y")>>),
               Arg("list", <<Tensor("y"), Tensor("z")>>)},
        u \in {Arg("list", <<>>),
               Arg("OrderedDict", <<<<"v2", "b">>>>),
               Arg("dict", <<<<"v2", "b">>>>)}}

FunctionInit ==
    /\ globals_updates = <<>>
    /\ functions = <<>>
    /\ registered = <<>>
    /\ session = [v \in Variables |-> "init"]
    /\ fn_last = [op |-> "none"]

\* add_global_updates(variable, value)
AddGlobalUpdates(variable, value) ==
    /\ Len(registered) < MaxEvents
    /\ globals_updates' = add_global_updates(globals_updates, variable, value)
    /\ registered' = Append(registered,
                            [op |-> "add", variable |-> variable, value |-> value])
    /\ fn_last' = [op |-> "add_global_updates"]
    /\ UNCHANGED <<functions, session>>

\* reset_global_updates(), called by the program
ResetGlobalUpdates ==
    /\ Len(registered) < MaxEvents
    /\ globals_updates' = reset_global_updates
    /\ registered' = Append(registered, [op |-> "reset", variable |-> "", value |-> ""])
    /\ fn_last' = [op |-> "reset_global_updates"]
    /\ UNCHANGED <<functions, session>>

\* f = function(inputs, outputs, updates)
CreateFunction(inputs, outputs, updates) ==
    /\ Len(functions) < MaxFunctions
    /\ LET new == function(inputs, outputs, updates, globals_updates)
       IN IF new.raised = "none"
          THEN /\ functions' = Append(functions, new)
               /\ globals_updates' = reset_global_updates
               /\ registered' = <<>>
               /\ fn_last' = [op |-> "Function", raised |-> "none",
                              registered |-> registered]
               /\ UNCHANGED session
          ELSE /\ fn_last' = [op |-> "Function", raised |-> new.raised,
                              registered |-> registered]
               /\ UNCHANGED <<functions, globals_updates, registered, session>>

\* f(x): the session runs the outputs and all assignments of the Function; a
\* variable assigned more than once ends with one of the values assigned, in no
\* order the program decides
RunFunction(f) ==
    /\ fn_last' = [op |-> "call", f |-> f, ret |-> FunctionCall(functions[f])]
    /\ session' \in SessionsAfter(session,
                                  functions[f].updates \o functions[f].global_update)
    /\ UNCHANGED <<functions, globals_updates, registered>>

FunctionNext ==
    \/ \E c \in AddCalls :
           AddGlobalUpdates(c[1], c[2]) /\ UNCHANGED <<cacheVars, tcVars, graphVars>>
    \/ ResetGlobalUpdates /\ UNCHANGED <<cacheVars, tcVars, graphVars>>
    \/ \E c \in FunctionCalls :
           CreateFunction(c[1], c[2], c[3]) /\ UNCHANGED <<cacheVars, tcVars, graphVars>>
    \/ \E f \in 1..Len(functions) :
           RunFunction(f) /\ UNCHANGED <<cacheVars, tcVars, graphVars>>

FunctionSpecInit == FunctionInit /\ CacheIdle /\ TcIdle /\ GraphIdle

FunctionSpec == FunctionSpecInit /\ [][FunctionNext]_vars

(***************************************************************************)
(* Properties of Function and the global updates                           *)
(***************************************************************************)
\* the global updates of a Function, as (variable, value) pairs
Attached(fn) == {<<a.var, a.value>> : a \in Range(fn.global_update)}

\* the updates registered in a history of calls: all of them, and those still
\* standing at its end (no later call registered the variable again or reset the
\* registry)
AllRegistered(h) ==
    {<<h[i].variable, h[i].value>> : i \in {j \in 1..Len(h) : h[j].op = "add"}}
Standing(h) ==
    {<<h[i].variable, h[i].value>> :
        i \in {j \in 1..Len(h) :
                  /\ h[j].op = "add"
                  /\ \A k \in (j + 1)..Len(h) :
                         h[k].op = "add" /\ h[k].variable # h[j].variable}}

\* C16 as stated: after a Function is constructed the registry is empty, and every
\* update registered with add_global_updates since the Function before it is
\* attached to it (and, the history starting anew, to no later one).
C16_EveryRegisteredUpdateAttached ==
    (fn_last.op = "Function" /\ fn_last.raised = "none") =>
        /\ globals_updates = <<>>
        /\ Attached(functions[Len(functions)]) = AllRegistered(fn_last.registered)

\* C16, amended: after a Function is constructed the registry is empty, and the
\* updates attached to it are those standing in the registry at its construction:
\* for each variable the value registered last, since the registry was last emptied
\* by the construction of a Function or by reset_global_updates.
C16_StandingUpdatesAttached ==
    (fn_last.op = "Function" /\ fn_last.raised = "none") =>
        /\ globals_updates = <<>>
        /\ registered = <<>>
        /\ Attached(functions[Len(functions)]) = Standing(fn_last.registered)
        /\ Len(functions[Len(functions)].global_update)
               = Cardinality(Standing(fn_last.registered))

\* a second Function was constructed after two updates of different variables were
\* registered, the first Function holding none of them
C16_Witness ==
    /\ fn_last.op = "Function"
    /\ fn_last.raised = "none"
    /\ Len(functions) = 2
    /\ Len(fn_last.registered) = 2
    /\ Cardinality(Attached(functions[2])) = 2
    /\ Attached(functions[1]) \cap Attached(functions[2]) = {}

\* C18: calling a Function returns exactly the values of its declared outputs: a
\* list of len(outputs) values in declaration order when outputs was given as a list
\* or tuple, the single value otherwise; no result of an update or global-update
\* assignment the call runs is in it.
C18_CallReturnsOutputsOnly ==
    fn_last.op = "call" =>
        LET declared == functions[fn_last.f].declared
            ValueOf(o) == [result_of |-> "output", ref |-> o.var]
        IN /\ IF declared.type \in {"list", "tuple"}
              THEN /\ fn_last.ret.list
                   /\ fn_last.ret.vals
                          = [k \in 1..Len(declared.items) |-> ValueOf(declared.items[k])]
              ELSE /\ ~fn_last.ret.list
                   /\ fn_last.ret.vals = <<ValueOf(declared.items[1])>>
           /\ \A k \in 1..Len(fn_last.ret.vals) :
                  fn_last.ret.vals[k].result_of # "assign"

\* a Function with two declared outputs, an update and a global update was called
C18_Witness ==
    /\ fn_last.op = "call"
    /\ Len(functions[fn_last.f].declared.items) = 2
    /\ functions[fn_last.f].updates # <<>>
    /\ functions[fn_last.f].global_update # <<>>
    /\ Len(fn_last.ret.vals) = 2
====
